---- MODULE Spec2Model ----
(***************************************************************************)
(* Model of remove_bg.py: remove_white_background(input_path, output_path) *)
(* opens an image file, converts it to RGBA, replaces every pixel whose    *)
(* R, G and B are all above 220 by (255,255,255,0), and saves the result   *)
(* as a PNG at output_path, then prints a confirmation line.               *)
(*                                                                         *)
(* The file system is a map from paths to files.  A file is a record       *)
(* [kind, format, mode, size, data]; `data` is the row-major sequence of   *)
(* raw pixels in the file's own mode (L: <<l>>, LA: <<l,a>>, RGB:          *)
(* <<r,g,b>>, RGBA: <<r,g,b,a>>).                                          *)
(***************************************************************************)
EXTENDS Integers, Sequences, FiniteSets

VARIABLES fs, fs0, pc, input_path, output_path, img, datas, newData,
          stdout, err, runs

vars == <<fs, fs0, pc, input_path, output_path, img, datas, newData,
          stdout, err, runs>>

\* ------------------------------------------------------------------ bounds
\* Largest number of pixels of an image file present before the first call.
MaxPixels == 2
\* Largest number of executions of the function in one behaviour.
MaxRuns == 2

\* ------------------------------------------------------- the environment
DefaultPath == "public/zen-circle.png"
OtherPath == "public/out.png"
Paths == {DefaultPath, OtherPath}

Modes == {"L", "LA", "RGB", "RGBA"}

\* Colours the initial files are painted with: the greys around the
\* threshold, black, white, and white with one channel exactly at 220.
GreySamples == {0, 220, 221, 255}
RGBSamples ==
    {<<l, l, l>> : l \in GreySamples}
        \cup {<<220, 255, 255>>, <<255, 220, 255>>, <<255, 255, 220>>}
RGBASamples ==
    {<<c[1], c[2], c[3], 255>> : c \in RGBSamples}
        \cup {<<255, 255, 255, 0>>, <<0, 0, 0, 0>>,
              <<221, 221, 221, 128>>, <<220, 220, 220, 128>>}

Samples(mode) ==
    CASE mode = "L" -> {<<l>> : l \in GreySamples}
      [] mode = "LA" -> {<<l, 255>> : l \in GreySamples}
                            \cup {<<255, 0>>, <<0, 0>>, <<221, 128>>}
      [] mode = "RGB" -> RGBSamples
      [] mode = "RGBA" -> RGBASamples

Shapes ==
    {s \in (1..MaxPixels) \X (1..MaxPixels) : s[1] * s[2] <= MaxPixels}

SourceFormat(mode) == IF mode = "RGB" THEN "JPEG" ELSE "PNG"

NoFile(kind) ==
    [kind |-> kind, format |-> "", mode |-> "", size |-> <<0, 0>>, data |-> <<>>]
\* No file at the path.
Missing == NoFile("missing")
\* A file the process may not read.
Unreadable == NoFile("unreadable")
\* A file that is no image (no codec identifies it).
Garbage == NoFile("garbage")

ImageFile(format, mode, size, data) ==
    [kind |-> "image", format |-> format, mode |-> mode, size |-> size,
     data |-> data]
\* An image file cut short: the header is intact, the pixel data is not.
TruncatedFile(format, mode, size) ==
    [kind |-> "truncated", format |-> format, mode |-> mode, size |-> size,
     data |-> <<>>]

ImageFiles ==
    UNION {UNION {{ImageFile(SourceFormat(m), m, s, d) :
                       d \in [1..(s[1] * s[2]) -> Samples(m)]} :
                  s \in Shapes} : m \in Modes}

InitFiles ==
    ImageFiles \cup {Missing, Unreadable, Garbage,
                     TruncatedFile("PNG", "RGBA", <<1, 1>>)}

\* What may already sit at the second path.
ExistingOther == ImageFile("PNG", "RGBA", <<1, 1>>, <<<<0, 0, 0, 255>>>>)

\* ------------------------------------------------------------ the program
NoImage == [mode |-> "", size |-> <<0, 0>>, data |-> <<>>]

\* OpenError with a file that is no image let through.
OpenErrorGarbageAccepted(f) ==
    CASE f.kind = "missing" -> "FileNotFoundError"
      [] f.kind = "unreadable" -> "PermissionError"
      [] OTHER -> "none"

\* Image.open: the exception it raises for a file it cannot open, or "none".
OpenError(f) ==
    CASE f.kind = "missing" -> "FileNotFoundError"
      [] f.kind = "unreadable" -> "PermissionError"
      [] f.kind = "garbage" -> "UnidentifiedImageError"
      [] OTHER -> "none"

\* Image.open is lazy: it reads the header and leaves the pixels in the file.
OpenHeader(f) == [mode |-> f.mode, size |-> f.size, data |-> <<>>]

\* ToRGBA with the synthesized alpha transparent instead of opaque.
ToRGBATransparent(mode, p) ==
    CASE mode = "L" -> <<p[1], p[1], p[1], 0>>
      [] mode = "LA" -> <<p[1], p[1], p[1], p[2]>>
      [] mode = "RGB" -> <<p[1], p[2], p[3], 0>>
      [] mode = "RGBA" -> p

\* convert("RGBA") of one raw pixel of the given mode.
ToRGBA(mode, p) ==
    CASE mode = "L" -> <<p[1], p[1], p[1], 255>>
      [] mode = "LA" -> <<p[1], p[1], p[1], p[2]>>
      [] mode = "RGB" -> <<p[1], p[2], p[3], 255>>
      [] mode = "RGBA" -> p

\* convert("RGBA") of the pixels of file f.
ConvertRGBA(f) ==
    [mode |-> "RGBA", size |-> f.size,
     data |-> [i \in 1..Len(f.data) |-> ToRGBA(f.mode, f.data[i])]]

Threshold == 220

\* Canonical with the alpha left opaque.
CanonicalOpaque == <<255, 255, 255, 255>>

Canonical == <<255, 255, 255, 0>>

\* IsBackground with the comparison one too high (> 221).
IsBackgroundAbove221(item) ==
    item[1] > Threshold + 1 /\ item[2] > Threshold + 1 /\ item[3] > Threshold + 1

\* IsBackground with >= in place of >.
IsBackgroundAtLeast(item) ==
    item[1] >= Threshold /\ item[2] >= Threshold /\ item[3] >= Threshold

\* IsBackground that also asks the pixel to be opaque.
IsBackgroundOpaqueOnly(item) ==
    /\ item[1] > Threshold /\ item[2] > Threshold /\ item[3] > Threshold
    /\ item[4] > Threshold

\* The test of line 15 (item[0], item[1], item[2] are p[1], p[2], p[3]).
IsBackground(item) ==
    item[1] > Threshold /\ item[2] > Threshold /\ item[3] > Threshold

\* What one iteration of the loop appends for `item`.
NewPixel(item) == IF IsBackground(item) THEN Canonical ELSE item

\* Collect that puts the new pixel in front (newData.insert(0, x)).
CollectFront(acc, x) == <<x>> \o acc

\* newData.append(x)
Collect(acc, x) == Append(acc, x)

\* PutData left out: the buffer keeps the converted input.
PutDataForgotten(image, pixels) == image

\* img.putdata(newData): the buffer takes the new pixels, mode and size stay.
PutData(image, pixels) == [image EXCEPT !.data = pixels]

\* The PNG encoding of an in-memory image, as a file.
EncodePNG(image) == ImageFile("PNG", image.mode, image.size, image.data)

\* What a failed save may leave at the path: the old file (the open failed),
\* an empty file, or a file cut short.
FailedSaveLeaves(old) ==
    {old, Garbage, TruncatedFile("PNG", "RGBA", <<1, 1>>)}

\* SaveNext with the exception swallowed.
SaveNextSwallowed(ok) == "print"

\* Where control goes after img.save: on, or out with the exception.
SaveNext(ok) == IF ok THEN "print" ELSE "failed"

Init ==
    /\ fs \in {f \in [Paths -> InitFiles \cup {ExistingOther}] :
                  f[OtherPath] \in {Missing, ExistingOther}}
    /\ fs0 = fs
    /\ pc = "start"
    /\ input_path = ""
    /\ output_path = ""
    /\ img = NoImage
    /\ datas = <<>>
    /\ newData = <<>>
    /\ stdout = <<>>
    /\ err = "none"
    /\ runs = 0

\* The function is called with two paths.
Call(inp, outp) ==
    /\ pc = "start"
    /\ pc' = "open"
    /\ input_path' = inp
    /\ output_path' = outp
    /\ runs' = runs + 1
    /\ fs0' = fs
    /\ UNCHANGED <<fs, img, datas, newData, stdout, err>>

\* img = Image.open(input_path)
Open ==
    /\ pc = "open"
    /\ LET f == fs[input_path] IN
         IF OpenError(f) # "none"
         THEN /\ pc' = "failed"
              /\ err' = OpenError(f)
              /\ UNCHANGED img
         ELSE /\ pc' = "convert"
              /\ img' = OpenHeader(f)
              /\ UNCHANGED err
    /\ UNCHANGED <<fs, fs0, input_path, output_path, datas, newData, stdout, runs>>

\* img = img.convert("RGBA"): loads the pixels from the file, then converts.
Convert ==
    /\ pc = "convert"
    /\ LET f == fs[input_path] IN
         IF f.kind = "truncated"
         THEN /\ pc' = "failed"
              /\ err' = "OSError"
              /\ UNCHANGED img
         ELSE /\ pc' = "getdata"
              /\ img' = ConvertRGBA(f)
              /\ UNCHANGED err
    /\ UNCHANGED <<fs, fs0, input_path, output_path, datas, newData, stdout, runs>>

\* datas = img.getdata(); newData = []
GetData ==
    /\ pc = "getdata"
    /\ datas' = img.data
    /\ newData' = <<>>
    /\ pc' = "loop"
    /\ UNCHANGED <<fs, fs0, input_path, output_path, img, stdout, err, runs>>

\* One iteration of `for item in datas`.
LoopStep ==
    /\ pc = "loop"
    /\ Len(newData) < Len(datas)
    /\ newData' = Collect(newData, NewPixel(datas[Len(newData) + 1]))
    /\ UNCHANGED <<fs, fs0, pc, input_path, output_path, img, datas, stdout, err, runs>>

\* The loop is over: img.putdata(newData)
LoopExit ==
    /\ pc = "loop"
    /\ Len(newData) = Len(datas)
    /\ img' = PutData(img, newData)
    /\ pc' = "save"
    /\ UNCHANGED <<fs, fs0, input_path, output_path, datas, newData, stdout, err, runs>>

\* img.save(output_path, "PNG"): succeeds, or raises and leaves what it leaves.
Save ==
    /\ pc = "save"
    /\ \E ok \in BOOLEAN :
         /\ pc' = SaveNext(ok)
         /\ IF ok
            THEN /\ fs' = [fs EXCEPT ![output_path] = EncodePNG(img)]
                 /\ UNCHANGED err
            ELSE /\ \E left \in FailedSaveLeaves(fs[output_path]) :
                        fs' = [fs EXCEPT ![output_path] = left]
                 /\ err' = "OSError"
    /\ UNCHANGED <<fs0, input_path, output_path, img, datas, newData, stdout, runs>>

\* print(f"Saved transparent image to {output_path}")
PrintConfirmation ==
    /\ pc = "print"
    /\ stdout' = Append(stdout, <<"Saved transparent image to", output_path>>)
    /\ pc' = "done"
    /\ UNCHANGED <<fs, fs0, input_path, output_path, img, datas, newData, err, runs>>

\* The function is applied again, to the file it has just written.
Reapply ==
    /\ pc = "done"
    /\ runs < MaxRuns
    /\ pc' = "open"
    /\ input_path' = output_path
    /\ runs' = runs + 1
    /\ fs0' = fs
    /\ img' = NoImage
    /\ datas' = <<>>
    /\ newData' = <<>>
    /\ UNCHANGED <<fs, output_path, stdout, err>>

Next ==
    \/ \E inp \in Paths, outp \in Paths : Call(inp, outp)
    \/ Open
    \/ Convert
    \/ GetData
    \/ LoopStep
    \/ LoopExit
    \/ Save
    \/ PrintConfirmation
    \/ Reapply

Spec == Init /\ [][Next]_vars

\* ----------------------------------------------- properties of the program
\* The RGBA pixels of the input file as it was when the current call began.
Normalized == ConvertRGBA(fs0[input_path]).data

\* The file now at the output path.
Output == fs[output_path]

\* img.save of the current call has returned.
Succeeded == pc \in {"print", "done"}

\* Red, green and blue all strictly above 220.
NearWhite(p) == p[1] > 220 /\ p[2] > 220 /\ p[3] > 220

\* The pixel the contract asks for in place of p.
Expected(p) == IF NearWhite(p) THEN <<255, 255, 255, 0>> ELSE p

\* C1: once the save has succeeded, every position whose normalized input
\* pixel has R, G and B all above 220 (whatever its alpha) holds
\* (255,255,255,0) in the output file.
C1_BackgroundBecomesTransparent ==
    Succeeded =>
        \A i \in 1..Len(Normalized) :
            NearWhite(Normalized[i]) =>
                /\ i \in DOMAIN Output.data
                /\ Output.data[i] = <<255, 255, 255, 0>>

C1_Witness ==
    /\ pc = "done"
    /\ \E i \in 1..Len(Normalized) :
         /\ Normalized[i] = <<221, 221, 221, 255>>
         /\ Output.data[i] = <<255, 255, 255, 0>>

\* C2: once the save has succeeded, every position whose normalized input
\* pixel has some channel of R, G, B at or below 220 holds that very pixel,
\* all four channels, in the output file.
C2_OthersUnchanged ==
    Succeeded =>
        \A i \in 1..Len(Normalized) :
            (Normalized[i][1] <= 220 \/ Normalized[i][2] <= 220
                 \/ Normalized[i][3] <= 220) =>
                /\ i \in DOMAIN Output.data
                /\ Output.data[i] = Normalized[i]

C2_Witness ==
    /\ pc = "done"
    /\ Len(Normalized) = 2
    /\ Normalized[1] = <<220, 220, 220, 255>>
    /\ Normalized[2] = <<255, 255, 220, 255>>
    /\ Output.data = Normalized

\* C3: when the function is applied to a file it wrote itself, the file it
\* writes has the same pixel grid; every (255,255,255,0) of the first output
\* is classified as background again and every other pixel is not.
C3_Idempotent ==
    (Succeeded /\ runs >= 2) =>
        /\ Output.size = fs0[input_path].size
        /\ Output.data = fs0[input_path].data
        /\ \A i \in 1..Len(datas) :
               IsBackground(datas[i]) <=> datas[i] = <<255, 255, 255, 0>>

C3_Witness ==
    /\ pc = "done"
    /\ runs = 2
    /\ Len(Output.data) = 2
    /\ Output.data[1] = <<255, 255, 255, 0>>
    /\ Output.data[2] = <<220, 220, 220, 128>>

\* C4: once the save has succeeded the output has the width and height of
\* the input, and the pixel at each position is the image of the input pixel
\* at that position; the 2x1 image white, black gives transparent, black.
C4_SameSizeSamePositions ==
    Succeeded =>
        /\ Output.kind = "image"
        /\ Output.size = fs0[input_path].size
        /\ Len(Output.data) = Output.size[1] * Output.size[2]
        /\ Output.data = [i \in 1..Len(Normalized) |-> Expected(Normalized[i])]
        /\ (/\ fs0[input_path].size = <<2, 1>>
            /\ Normalized = <<<<255, 255, 255, 255>>, <<0, 0, 0, 255>>>>)
               => Output.data = <<<<255, 255, 255, 0>>, <<0, 0, 0, 255>>>>

C4_Witness ==
    /\ pc = "done"
    /\ fs0[input_path].size = <<2, 1>>
    /\ Normalized = <<<<255, 255, 255, 255>>, <<0, 0, 0, 255>>>>
    /\ Output.size = <<2, 1>>
    /\ Output.data = <<<<255, 255, 255, 0>>, <<0, 0, 0, 255>>>>

\* C5: every pixel the loop has produced, and every pixel of the file once
\* it is saved, is its input pixel or (255,255,255,0), and nothing else.
C5_OnlyInputOrCanonical ==
    /\ pc \in {"loop", "save", "print", "done"} =>
           \A i \in 1..Len(newData) :
               newData[i] \in {Normalized[i], <<255, 255, 255, 0>>}
    /\ Succeeded =>
           /\ Len(Output.data) = Len(Normalized)
           /\ \A i \in 1..Len(Output.data) :
                  Output.data[i] \in {Normalized[i], <<255, 255, 255, 0>>}

C5_Witness ==
    /\ pc = "done"
    /\ \E i, j \in 1..Len(Output.data) :
         /\ Output.data[i] = <<255, 255, 255, 0>>
         /\ Normalized[i] # <<255, 255, 255, 0>>
         /\ Output.data[j] = Normalized[j]
         /\ Normalized[j] # <<255, 255, 255, 0>>

\* C6: when the input file is missing, unreadable or not a decodable image,
\* the call ends in the decode error before anything is written: the file
\* system stays as it was when the call began, no confirmation is printed,
\* and the failed call takes no further step.
C6_DecodeFailureWritesNothing ==
    /\ [](((pc # "start") /\ fs0[input_path].kind # "image") =>
            /\ pc \in {"open", "convert", "failed"}
            /\ fs = fs0
            /\ stdout = <<>>
            /\ pc = "failed" =>
                   err \in {"FileNotFoundError", "PermissionError",
                            "UnidentifiedImageError", "OSError"})
    /\ [][pc = "failed" => pc' = "failed"]_vars

C6_Witness ==
    /\ pc = "failed"
    /\ err = "UnidentifiedImageError"
    /\ input_path = DefaultPath
    /\ output_path = OtherPath
    /\ fs[OtherPath] = Missing

\* C7: nothing is written before the whole input is in memory; after a
\* successful call the output path holds the PNG of the transform of the
\* input as it was, whatever the output path held before (the input file
\* itself when the two paths are equal), and no other path has changed, so
\* no copy of the old contents is kept.
C7_OverwritesAfterDecoding ==
    /\ pc \in {"open", "convert", "getdata", "loop", "save"} => fs = fs0
    /\ pc = "save" =>
           /\ Len(img.data) = fs0[input_path].size[1] * fs0[input_path].size[2]
           /\ Len(img.data) = Len(fs0[input_path].data)
    /\ Succeeded =>
           /\ Output = [kind |-> "image", format |-> "PNG", mode |-> "RGBA",
                        size |-> fs0[input_path].size,
                        data |-> [i \in 1..Len(Normalized) |->
                                      Expected(Normalized[i])]]
           /\ \A p \in Paths \ {output_path} : fs[p] = fs0[p]

C7_Witness ==
    /\ pc = "done"
    /\ runs = 1
    /\ input_path = DefaultPath
    /\ output_path = DefaultPath
    /\ fs0[DefaultPath].mode = "RGB"
    /\ fs0[DefaultPath].data = <<<<255, 255, 255>>, <<0, 0, 0>>>>
    /\ fs[DefaultPath].data = <<<<255, 255, 255, 0>>, <<0, 0, 0, 255>>>>
    /\ fs[OtherPath] = fs0[OtherPath]

\* C8: one confirmation line per call that has got past its save, none for
\* any other; the line names the output path and is there only once the PNG
\* is in the file; a call whose save raised ends failed, without the line.
C8_ConfirmOnceAfterSave ==
    /\ Len(stdout) = (IF pc = "done" THEN runs ELSE IF runs = 0 THEN 0 ELSE runs - 1)
    /\ pc = "done" =>
           /\ stdout[Len(stdout)] = <<"Saved transparent image to", output_path>>
           /\ Output = EncodePNG(img)
           /\ Output.format = "PNG"
    /\ err # "none" => pc = "failed"
    /\ pc = "failed" => err # "none"

C8_Witness ==
    /\ pc = "failed"
    /\ err = "OSError"
    /\ fs0[input_path].kind = "image"
    /\ runs = 2
    /\ Len(stdout) = 1

C10_OpacityNeverGrows ==
    Succeeded =>
        \A i \in 1..Len(Normalized) :
            LET p == Normalized[i]
                q == Output.data[i]
            IN  /\ q[4] <= p[4]
                /\ (q[4] = 0) <=> (NearWhite(p) \/ p[4] = 0)
                /\ (p[4] = 0 /\ ~NearWhite(p)) =>
                       <<q[1], q[2], q[3]>> = <<p[1], p[2], p[3]>>

C10_Witness ==
    /\ pc = "done"
    /\ Len(Normalized) = 2
    /\ Normalized[1] = <<221, 221, 221, 128>>
    /\ Output.data[1] = <<255, 255, 255, 0>>
    /\ Normalized[2] = <<0, 0, 0, 0>>
    /\ Output.data[2] = <<0, 0, 0, 0>>

====
